---- MODULE Spec2Model ----
(***************************************************************************)
(* VisionCheck: the POST /evaluate-image pipeline.                         *)
(*                                                                         *)
(* Strings that the code inspects (startsWith, endsWith, includes, split,  *)
(* trim, toLowerCase, replace) are modelled as sequences of text tokens:   *)
(* the string is the concatenation of its tokens, and every substring the  *)
(* code looks for is a whole number of tokens.                             *)
(***************************************************************************)
EXTENDS Integers, Sequences, FiniteSets, TLC

VARIABLES pc, body, env, urlValidation, serviceConstructed, net, trace,
          headResp, getResp, postResp, outcome, reply,
          peer   \* a second request in flight at the same time, as a record

vars == <<pc, body, env, urlValidation, serviceConstructed, net, trace,
          headResp, getResp, postResp, outcome, reply, peer>>

(***************************************************************************)
(* Bounds of the model.                                                    *)
(***************************************************************************)
\* confidence values reported upstream range over -MaxConfTenths..MaxConfTenths tenths
MaxConfTenths == 15
\* declared / downloaded sizes go up to MaxOverMiB MiB above the cap
MaxOverMiB == 2

(***************************************************************************)
(* String helpers (JavaScript String.prototype).                           *)
(***************************************************************************)
Min(a, b) == IF a < b THEN a ELSE b
Max(a, b) == IF a > b THEN a ELSE b

\* s.startsWith(p)
StartsWith(s, p) == Len(s) >= Len(p) /\ SubSeq(s, 1, Len(p)) = p

\* s.endsWith(p)
EndsWith(s, p) == Len(s) >= Len(p) /\ SubSeq(s, Len(s) - Len(p) + 1, Len(s)) = p

\* s.includes(p)
Includes(s, p) ==
    \E i \in 1..(Len(s) - Len(p) + 1) : SubSeq(s, i, i + Len(p) - 1) = p

\* one token lowercased; tokens without upper-case letters are unchanged
LowerTok(t) ==
    CASE t = "EXAMPLE" -> "example"
      [] t = "HTTP:"   -> "http:"
      [] t = "IMAGE/"  -> "image/"
      [] t = "Image/"  -> "image/"
      [] t = "JPG"     -> "jpg"
      [] t = "JPEG"    -> "jpeg"
      [] t = "PNG"     -> "png"
      [] OTHER         -> t

\* s.toLowerCase()
ToLowerCase(s) == [i \in 1..Len(s) |-> LowerTok(s[i])]

IsSpace(t) == t \in {" ", "\n"}

RECURSIVE TrimStart(_)
TrimStart(s) == IF s # <<>> /\ IsSpace(Head(s)) THEN TrimStart(Tail(s)) ELSE s

RECURSIVE TrimEnd(_)
TrimEnd(s) ==
    IF s # <<>> /\ IsSpace(s[Len(s)]) THEN TrimEnd(SubSeq(s, 1, Len(s) - 1)) ELSE s

\* s.trim()
Trim(s) == TrimEnd(TrimStart(s))

\* index of the first token equal to sep, 0 when there is none
RECURSIVE IndexOfFrom(_, _, _)
IndexOfFrom(s, sep, i) ==
    IF i > Len(s) THEN 0
    ELSE IF s[i] = sep THEN i ELSE IndexOfFrom(s, sep, i + 1)

\* s.split(sep): a sequence of strings
RECURSIVE Split(_, _)
Split(s, sep) ==
    LET i == IndexOfFrom(s, sep, 1)
    IN  IF i = 0 THEN <<s>>
        ELSE <<SubSeq(s, 1, i - 1)>> \o Split(SubSeq(s, i + 1, Len(s)), sep)

\* an optional string: process.env entries and response headers may be undefined
Undefined == [defined |-> FALSE, s |-> <<>>]
Str(s) == [defined |-> TRUE, s |-> s]
\* JavaScript truthiness of an optional string
Truthy(o) == o.defined /\ o.s # <<>>

(***************************************************************************)
(* new URL(url): scheme, "//", host tokens, then the path.  The parser     *)
(* lowercases the scheme and the host of a special scheme.                 *)
(***************************************************************************)
SchemeTokens == {"http:", "https:", "ftp:", "file:"}

RECURSIVE HostEnd(_, _)
HostEnd(url, i) ==
    IF i > Len(url) \/ url[i] = "/" THEN i - 1 ELSE HostEnd(url, i + 1)

ParseURL(url) ==
    IF Len(url) >= 3 /\ LowerTok(url[1]) \in SchemeTokens /\ url[2] = "//"
       /\ url[3] # "/"
    THEN [ok |-> TRUE,
          protocol |-> LowerTok(url[1]),
          hostname |-> ToLowerCase(SubSeq(url, 3, HostEnd(url, 3)))]
    ELSE [ok |-> FALSE, protocol |-> "", hostname |-> <<>>]

(***************************************************************************)
(* validateImageUrl                                                        *)
(***************************************************************************)
\* a list that keeps its empty entries
AllowedDomainListNoFilter(allowedDomains) ==
    LET parts == Split(allowedDomains, ",")
    IN  [i \in 1..Len(parts) |-> ToLowerCase(Trim(parts[i]))]

\* the trimmed, lowercased, non-empty entries of the comma-separated list
AllowedDomainList(allowedDomains) ==
    LET parts == Split(allowedDomains, ",")
        norm  == [i \in 1..Len(parts) |-> ToLowerCase(Trim(parts[i]))]
    IN  SelectSeq(norm, LAMBDA d : Len(d) > 0)

\* a suffix match that forgets the dot boundary
IsAllowedNoDot(hostname, domains) ==
    \E i \in 1..Len(domains) :
        hostname = domains[i] \/ EndsWith(hostname, domains[i])

\* domains.some(domain => hostname === domain || hostname.endsWith(`.${domain}`))
IsAllowed(hostname, domains) ==
    \E i \in 1..Len(domains) :
        hostname = domains[i] \/ EndsWith(hostname, <<".">> \o domains[i])

PrivatePrefixes ==
    {<<"192", ".", "168", ".">>, <<"10", ".">>, <<"169", ".", "254", ".">>,
     <<"[::1]">>, <<"[fe80:">>}
    \cup {<<"172", ".", ToString(n), ".">> : n \in 16..31}

\* the SSRF condition: localhost, 127.0.0.1, 0.0.0.0 and the blocked prefixes
IsPrivateHost(hostname) ==
    \/ hostname = <<"localhost">>
    \/ hostname = <<"127", ".", "0", ".", "0", ".", "1">>
    \/ hostname = <<"0", ".", "0", ".", "0", ".", "0">>
    \/ \E p \in PrivatePrefixes : StartsWith(hostname, p)

IsMetadataHost(hostname) ==
    \/ hostname = <<"169", ".", "254", ".", "169", ".", "254">>
    \/ Includes(hostname, <<"metadata", ".", "google", ".", "internal">>)

Valid == [isValid |-> TRUE, error |-> ""]
Invalid(msg) == [isValid |-> FALSE, error |-> msg]

\* a bug the allowlist claims must detect: an allowlisted host skips the SSRF checks
validateImageUrlAllowlistWins(url, allowedDomains) ==
    LET parsedUrl == ParseURL(url)
        hostname  == ToLowerCase(parsedUrl.hostname)
        domains   == AllowedDomainList(allowedDomains.s)
    IN  IF ~parsedUrl.ok THEN Invalid("image_url must be a valid URL")
        ELSE IF parsedUrl.protocol \notin {"http:", "https:"}
        THEN Invalid("image_url must use HTTP or HTTPS protocol")
        ELSE IF Truthy(allowedDomains) /\ Trim(allowedDomains.s) # <<>>
                /\ Len(domains) > 0
        THEN IF IsAllowed(hostname, domains) THEN Valid
             ELSE Invalid("image_url domain is not in the allowed list")
        ELSE IF IsPrivateHost(hostname)
        THEN Invalid("image_url cannot point to private or localhost addresses")
        ELSE IF IsMetadataHost(hostname)
        THEN Invalid("image_url cannot point to metadata endpoints")
        ELSE Valid

validateImageUrl(url, allowedDomains) ==
    LET parsedUrl == ParseURL(url)
        hostname  == ToLowerCase(parsedUrl.hostname)
        domains   == AllowedDomainList(allowedDomains.s)
    IN  IF ~parsedUrl.ok THEN Invalid("image_url must be a valid URL")
        ELSE IF parsedUrl.protocol \notin {"http:", "https:"}
        THEN Invalid("image_url must use HTTP or HTTPS protocol")
        ELSE IF Truthy(allowedDomains) /\ Trim(allowedDomains.s) # <<>>
                /\ Len(domains) > 0 /\ ~IsAllowed(hostname, domains)
        THEN Invalid("image_url domain is not in the allowed list")
        ELSE IF IsPrivateHost(hostname)
        THEN Invalid("image_url cannot point to private or localhost addresses")
        ELSE IF IsMetadataHost(hostname)
        THEN Invalid("image_url cannot point to metadata endpoints")
        ELSE Valid

(***************************************************************************)
(* Errors.  A thrown value is an Error (or an AxiosError) whose message is *)
(* a token sequence; the keywords the route looks for are whole tokens.    *)
(***************************************************************************)
NoResult == [exists |-> FALSE, confidence |-> 0, reasoning |-> <<>>, status |-> "none"]
NoAxios == [isAxiosError |-> FALSE, code |-> "", hasResponse |-> FALSE, status |-> 0,
            dataErrorMessage |-> Undefined, statusText |-> <<>>]

Returned(result) ==
    [kind |-> "ok", result |-> result, name |-> "", message |-> <<>>, axios |-> NoAxios]
\* new Error(message)
Thrown(message) ==
    [kind |-> "error", result |-> NoResult, name |-> "Error", message |-> message,
     axios |-> NoAxios]
\* the TypeError of a property read on null
ThrownTypeError(message) ==
    [kind |-> "error", result |-> NoResult, name |-> "TypeError", message |-> message,
     axios |-> NoAxios]
\* a rejection of axios.head / axios.get / axios.post
AxiosError(code, hasResponse, status, message, dataErrorMessage, statusText) ==
    [kind |-> "error", result |-> NoResult, name |-> "AxiosError", message |-> message,
     axios |-> [isAxiosError |-> TRUE, code |-> code, hasResponse |-> hasResponse,
                status |-> status, dataErrorMessage |-> dataErrorMessage,
                statusText |-> statusText]]
NoOutcome ==
    [kind |-> "none", result |-> NoResult, name |-> "", message |-> <<>>, axios |-> NoAxios]

(***************************************************************************)
(* fetchImageAsBase64: sizes, content types, base64.                       *)
(***************************************************************************)
MiB == 1024 * 1024
MAX_IMAGE_SIZE == 10 * 1024 * 1024

\* the byte counts the origin may declare or deliver
SizeValues ==
    {0, 1024, MAX_IMAGE_SIZE - 1, MAX_IMAGE_SIZE, MAX_IMAGE_SIZE + 1}
    \cup {MAX_IMAGE_SIZE + k * MiB : k \in 1..MaxOverMiB}

NaN == [nan |-> TRUE, n |-> 0]
Num(n) == [nan |-> FALSE, n |-> n]

\* Number.parseInt(s, 10): the leading run of digits after optional whitespace
ParseInt(s) ==
    LET t == TrimStart(s)
    IN  IF t # <<>> /\ \E n \in SizeValues : ToString(n) = t[1]
        THEN Num(CHOOSE n \in SizeValues : ToString(n) = t[1])
        ELSE NaN

\* Math.round(size / 1024 / 1024)
RoundMB(size) == (size + MiB \div 2) \div MiB

SizeExceededMessage(size) ==
    <<"Image size (", ToString(RoundMB(size)), "MB) ", "exceeds maximum allowed size",
      " (10MB)">>

\* the probe's own determination (lines 127-135) on a resolved HEAD response
ProbeExceeds(contentLength) ==
    /\ Truthy(contentLength)
    /\ ~ParseInt(contentLength.s).nan
    /\ ParseInt(contentLength.s).n > MAX_IMAGE_SIZE

\* (response.headers["content-type"] || "").toLowerCase().split(";")[0].trim()
CleanContentType(header) ==
    Trim(Split(ToLowerCase(IF Truthy(header) THEN header.s ELSE <<>>), ";")[1])

allowedTypes ==
    {<<"image/", "jpeg">>, <<"image/", "jpg">>, <<"image/", "png">>, <<"image/", "webp">>}

\* a format check that lets every declared type through
IsUnsupportedNever(contentType) == FALSE

\* contentType && !allowedTypes.some((type) => contentType.includes(type))
IsUnsupported(contentType) ==
    contentType # <<>> /\ ~\E type \in allowedTypes : Includes(contentType, type)

UnsupportedMessage(contentType) ==
    <<"Unsupported image ", "format", ": ">> \o contentType
    \o <<". Supported ", "format", "s: JPG, PNG, WebP">>

\* a fetch that hands on the declared type as it is
NormalizeContentTypeAsDeclared(contentType) ==
    IF contentType = <<>> THEN <<"image/", "jpeg">> ELSE contentType

NormalizeContentType(contentType) ==
    IF Includes(contentType, <<"png">>) THEN <<"image/", "png">>
    ELSE IF Includes(contentType, <<"webp">>) THEN <<"image/", "webp">>
    ELSE <<"image/", "jpeg">>

\* Buffer.from(data).toString("base64"): 4 characters for every 3 bytes, padded
Base64(data) == [chars |-> 4 * ((data.byteLength + 2) \div 3), of |-> data.fill]
NoBase64 == [chars |-> 0, of |-> ""]
NoImage == [base64 |-> NoBase64, contentType |-> <<>>]

\* a post-download check that is off by one: exactly 10 MiB is refused
AfterGetOffByOne(response) ==
    LET contentType == CleanContentType(response.contentType)
    IN  IF response.data.byteLength >= MAX_IMAGE_SIZE
        THEN [out |-> Thrown(SizeExceededMessage(response.data.byteLength)),
              image |-> NoImage]
        ELSE IF IsUnsupported(contentType)
        THEN [out |-> Thrown(UnsupportedMessage(contentType)), image |-> NoImage]
        ELSE [out |-> NoOutcome,
              image |-> [base64 |-> Base64(response.data),
                         contentType |-> NormalizeContentType(contentType)]]

\* lines 157-192, applied to a resolved GET response
AfterGet(response) ==
    LET contentType == CleanContentType(response.contentType)
    IN  IF response.data.byteLength > MAX_IMAGE_SIZE
        THEN [out |-> Thrown(SizeExceededMessage(response.data.byteLength)),
              image |-> NoImage]
        ELSE IF IsUnsupported(contentType)
        THEN [out |-> Thrown(UnsupportedMessage(contentType)), image |-> NoImage]
        ELSE [out |-> NoOutcome,
              image |-> [base64 |-> Base64(response.data),
                         contentType |-> NormalizeContentType(contentType)]]

\* a catch that looks at the attached response before the timeout code
FetchCatchResponseFirst(error) ==
    IF error.axios.isAxiosError
    THEN IF error.axios.hasResponse
         THEN Thrown(<<"Failed to ", "fetch", " image: ", "HTTP", " ",
                       ToString(error.axios.status)>>)
         ELSE IF error.axios.code = "ECONNABORTED"
         THEN Thrown(<<"Image ", "fetch", " ", "timeout",
                       ": The image URL took too long to respond">>)
         ELSE Thrown(<<"Failed to ", "fetch", " image: ">> \o error.message)
    ELSE error

\* the .catch of evaluateImage around fetchImageAsBase64 (lines 53-66)
FetchCatch(error) ==
    IF error.axios.isAxiosError
    THEN IF error.axios.code = "ECONNABORTED"
         THEN Thrown(<<"Image ", "fetch", " ", "timeout",
                       ": The image URL took too long to respond">>)
         ELSE IF error.axios.hasResponse
         THEN Thrown(<<"Failed to ", "fetch", " image: ", "HTTP", " ",
                       ToString(error.axios.status)>>)
         ELSE Thrown(<<"Failed to ", "fetch", " image: ">> \o error.message)
    ELSE error

\* a catch that reports the status text whatever the body says
PostCatchStatusTextOnly(error) ==
    IF error.axios.isAxiosError
    THEN IF error.axios.hasResponse
         THEN Thrown(<<"OpenRouter API error: ">> \o error.axios.statusText)
         ELSE Thrown(<<"OpenRouter API request failed: ">> \o error.message)
    ELSE error

\* the .catch of evaluateImage around axios.post (lines 95-104)
PostCatch(error) ==
    IF error.axios.isAxiosError
    THEN IF error.axios.hasResponse
         THEN Thrown(<<"OpenRouter API error: ">>
                     \o (IF Truthy(error.axios.dataErrorMessage)
                         THEN error.axios.dataErrorMessage.s
                         ELSE error.axios.statusText))
         ELSE Thrown(<<"OpenRouter API request failed: ">> \o error.message)
    ELSE error

(***************************************************************************)
(* JSON.parse on the token text of a model reply.  A JSON document is      *)
(* null, a number, a string, an array, or an object "{" m "," m ... "}"    *)
(* whose member tokens are the ones below; white space between tokens is   *)
(* skipped; anything else is a SyntaxError.                                *)
(***************************************************************************)
JV(t, b, n, s) == [t |-> t, b |-> b, n |-> n, s |-> s]
JUndefined == JV("undefined", FALSE, 0, <<>>)
JNull == JV("null", FALSE, 0, <<>>)
JBool(b) == JV("boolean", b, 0, <<>>)
JNumber(n) == JV("number", FALSE, n, <<>>)
JString(s) == JV("string", FALSE, 0, s)

\* 1.0 in the model's unit of confidence (tenths)
ConfOne == 10
ConfValues == (0 - MaxConfTenths)..MaxConfTenths

\* the JSON text of the number n/10
ConfNumberText(n) == ToString(n) \o "e-1"

ExistsMember(text) == "\"exists\":" \o text
ConfidenceMember(text) == "\"confidence\":" \o text
ReasoningMember(text) == "\"reasoning\":" \o text

\* the string literals of the model and the characters they denote
StringLiterals == {"\"dog visible\"", "\" padded \"", "\"\"", "\"  \"", "\"true\"", "\"0.9\""}
StringValue(lit) ==
    CASE lit = "\"dog visible\"" -> <<"dog visible">>
      [] lit = "\" padded \""    -> <<" ", "padded", " ">>
      [] lit = "\"\""            -> <<>>
      [] lit = "\"  \""          -> <<" ", " ">>
      [] lit = "\"true\""        -> <<"true">>
      [] lit = "\"0.9\""         -> <<"0.9">>

ScalarTexts ==
    {"true", "false", "null"} \cup StringLiterals
    \cup {ConfNumberText(n) : n \in ConfValues}

\* the value a scalar JSON text denotes
ScalarValue(text) ==
    IF text = "true" THEN JBool(TRUE)
    ELSE IF text = "false" THEN JBool(FALSE)
    ELSE IF text = "null" THEN JNull
    ELSE IF text \in StringLiterals THEN JString(StringValue(text))
    ELSE JNumber(CHOOSE n \in ConfValues : ConfNumberText(n) = text)

MemberKeys == {"exists", "confidence", "reasoning"}
MemberToken(key, text) ==
    CASE key = "exists"     -> ExistsMember(text)
      [] key = "confidence" -> ConfidenceMember(text)
      [] key = "reasoning"  -> ReasoningMember(text)
MemberTokens == {MemberToken(k, t) : k \in MemberKeys, t \in ScalarTexts}
MemberKey(tok) ==
    CHOOSE k \in MemberKeys : \E t \in ScalarTexts : MemberToken(k, t) = tok
MemberValue(tok) ==
    ScalarValue(CHOOSE t \in ScalarTexts : MemberToken(MemberKey(tok), t) = tok)

SyntaxError == [ok |-> FALSE, kind |-> "", members |-> <<>>]

\* the value of property key of a parsed object: the last member with that key
RECURSIVE Property(_, _)
Property(members, key) ==
    IF members = <<>> THEN JUndefined
    ELSE IF MemberKey(members[Len(members)]) = key
    THEN MemberValue(members[Len(members)])
    ELSE Property(SubSeq(members, 1, Len(members) - 1), key)

JSONParse(text) ==
    LET toks  == SelectSeq(text, LAMBDA t : ~IsSpace(t))
        n     == Len(toks)
        inner == SubSeq(toks, 2, n - 1)
    IN  IF n = 1 /\ toks[1] \in ScalarTexts
        THEN [ok |-> TRUE,
              kind |-> IF toks[1] = "null" THEN "null" ELSE "primitive",
              members |-> <<>>]
        ELSE IF toks = <<"[", "]">>
        THEN [ok |-> TRUE, kind |-> "array", members |-> <<>>]
        ELSE IF n >= 2 /\ toks[1] = "{" /\ toks[n] = "}"
                /\ (inner = <<>> \/ Len(inner) % 2 = 1)
                /\ \A i \in 1..Len(inner) :
                      IF i % 2 = 1 THEN inner[i] \in MemberTokens ELSE inner[i] = ","
        THEN [ok |-> TRUE, kind |-> "object",
              members |-> SelectSeq(inner, LAMBDA t : t # ",")]
        ELSE SyntaxError

(***************************************************************************)
(* VisionService.parseResponse                                             *)
(***************************************************************************)
\* content.replace(/<fence>\n?/g, ""): every fence token and the newline after it
RECURSIVE RemoveFence(_, _)
RemoveFence(s, fence) ==
    IF s = <<>> THEN <<>>
    ELSE IF Head(s) = fence
    THEN IF Len(s) >= 2 /\ s[2] = "\n"
         THEN RemoveFence(SubSeq(s, 3, Len(s)), fence)
         ELSE RemoveFence(Tail(s), fence)
    ELSE <<Head(s)>> \o RemoveFence(Tail(s), fence)

\* the code-fence marker of three backticks is written as the token '''
FenceJson == "'''json"
Fence == "'''"

\* a cleaning that only knows the json fence
CleanContentJsonFenceOnly(content) == Trim(RemoveFence(content, FenceJson))

CleanContent(content) == Trim(RemoveFence(RemoveFence(content, FenceJson), Fence))

\* a failure message that embeds the cleaned text instead of the raw reply
JsonFailureMessageCleaned(content) ==
    <<"Failed to parse AI response as JSON: ">> \o CleanContent(content)

\* the message of the JSON parse failure for the raw reply content
JsonFailureMessage(content) == <<"Failed to parse AI response as JSON: ">> \o content

\* Math.max(0, Math.min(1, confidence)) without the upper clamp
ClampLowOnly(c) == Max(0, c)

\* Math.max(0, Math.min(1, confidence))
Clamp(c) == Max(0, Min(ConfOne, c))

parseResponse(content) ==
    LET parsed     == JSONParse(CleanContent(content))
        exists     == Property(parsed.members, "exists")
        confidence == Property(parsed.members, "confidence")
        reasoning  == Property(parsed.members, "reasoning")
    IN  IF ~parsed.ok
        THEN Thrown(JsonFailureMessage(content))
        ELSE IF parsed.kind = "null"
        THEN ThrownTypeError(<<"Cannot read properties of null (reading 'exists')">>)
        ELSE IF exists.t # "boolean"
        THEN Thrown(<<"AI response missing valid \"exists\" boolean field">>)
        ELSE IF confidence.t # "number"
        THEN Thrown(<<"AI response missing valid \"confidence\" number field">>)
        ELSE IF reasoning.t # "string"
        THEN Thrown(<<"AI response missing valid \"reasoning\" string field">>)
        ELSE Returned([exists |-> exists.b,
                       confidence |-> Clamp(confidence.n),
                       reasoning |-> Trim(reasoning.s),
                       status |-> "success"])

(***************************************************************************)
(* EvaluateImageRequestSchema.safeParse.  A feature string is a sequence   *)
(* of runs [ch, n]: the character ch repeated n times.                     *)
(***************************************************************************)
MAX_FEATURE_LENGTH == 500

Run(ch, n) == [ch |-> ch, n |-> n]

RECURSIVE FeatureLength(_)
FeatureLength(feature) ==
    IF feature = <<>> THEN 0 ELSE Head(feature).n + FeatureLength(Tail(feature))

\* a length check that is off by one: 500 characters are already too long
SchemaIssuesOffByOne(b) ==
    LET parsed == ParseURL(b.image_url)
    IN  (IF ~parsed.ok THEN <<<<"image_url must be a ", "valid URL">>>> ELSE <<>>)
        \o (IF ~parsed.ok \/ parsed.protocol \notin {"http:", "https:"}
            THEN <<<<"image_url must be a valid ", "HTTP/HTTPS", " URL">>>> ELSE <<>>)
        \o (IF FeatureLength(b.feature) < 1
            THEN <<<<"feature description ", "cannot be empty">>>> ELSE <<>>)
        \o (IF FeatureLength(b.feature) >= MAX_FEATURE_LENGTH
            THEN <<<<"feature description is ", "too long">>>> ELSE <<>>)

\* a schema without the protocol refinement: only new URL() is asked
SchemaIssuesNoRefine(b) ==
    LET parsed == ParseURL(b.image_url)
    IN  (IF ~parsed.ok THEN <<<<"image_url must be a ", "valid URL">>>> ELSE <<>>)
        \o (IF FeatureLength(b.feature) < 1
            THEN <<<<"feature description ", "cannot be empty">>>> ELSE <<>>)
        \o (IF FeatureLength(b.feature) > MAX_FEATURE_LENGTH
            THEN <<<<"feature description is ", "too long">>>> ELSE <<>>)

\* the messages of the issues, image_url first, in the order zod reports them;
\* a message is a token sequence whose words of interest are whole tokens
SchemaIssues(b) ==
    LET parsed == ParseURL(b.image_url)
    IN  (IF ~parsed.ok THEN <<<<"image_url must be a ", "valid URL">>>> ELSE <<>>)
        \o (IF ~parsed.ok \/ parsed.protocol \notin {"http:", "https:"}
            THEN <<<<"image_url must be a valid ", "HTTP/HTTPS", " URL">>>> ELSE <<>>)
        \o (IF FeatureLength(b.feature) < 1
            THEN <<<<"feature description ", "cannot be empty">>>> ELSE <<>>)
        \o (IF FeatureLength(b.feature) > MAX_FEATURE_LENGTH
            THEN <<<<"feature description is ", "too long">>>> ELSE <<>>)

\* errors.map((e) => e.message).join(", ") on messages that are token sequences
RECURSIVE JoinMessages(_, _)
JoinMessages(msgs, sep) ==
    IF msgs = <<>> THEN <<>>
    ELSE IF Len(msgs) = 1 THEN msgs[1]
    ELSE msgs[1] \o <<sep>> \o JoinMessages(Tail(msgs), sep)

\* Array.prototype.join on single-token parts
RECURSIVE Join(_, _)
Join(msgs, sep) ==
    IF msgs = <<>> THEN <<>>
    ELSE IF Len(msgs) = 1 THEN <<msgs[1]>>
    ELSE <<msgs[1], sep>> \o Join(Tail(msgs), sep)

(***************************************************************************)
(* The route's replies and its catch block.                                *)
(***************************************************************************)
NoReply == [status |-> 0, error |-> <<>>, result |-> NoResult, bodyStatus |-> ""]
ErrorReply(status, error) ==
    [status |-> status, error |-> error, result |-> NoResult, bodyStatus |-> "error"]
ResultReply(result) ==
    [status |-> 200, error |-> <<>>, result |-> result, bodyStatus |-> result.status]

RouteKeywords == {"fetch", "timeout", "HTTP", "format"}

\* a catch block that forwards an upstream-looking status instead of 500
RouteCatchForwardsStatus(error) ==
    IF \E w \in RouteKeywords : Includes(error.message, <<w>>)
    THEN ErrorReply(400, error.message)
    ELSE ErrorReply(502, error.message)

\* lines 131-167 of the route: the status is chosen by the words of the message
RouteCatch(error) ==
    IF error.name \in {"Error", "TypeError", "AxiosError"}
    THEN IF \E w \in RouteKeywords : Includes(error.message, <<w>>)
         THEN ErrorReply(400, error.message)
         ELSE ErrorReply(500, IF error.message # <<>> THEN error.message
                              ELSE <<"An unexpected error occurred during image evaluation">>)
    ELSE ErrorReply(500, <<"An unexpected error occurred">>)

(***************************************************************************)
(* VisionService: constructor, buildPrompt and the outbound requests.      *)
(***************************************************************************)
DefaultModel == <<"allenai/molmo-2-8b:free">>
VisionServiceModel(model) == IF Truthy(model) THEN model.s ELSE DefaultModel

buildPrompt(feature) ==
    [before |-> "Analyze this image carefully. Does it contain or show \"",
     feature |-> feature,
     after |-> "\"? ... Respond ONLY with a valid JSON object ..."]

NoPayload ==
    [model |-> <<>>, prompt |-> buildPrompt(<<>>), mime |-> <<>>, base64 |-> NoBase64,
     bearer |-> <<>>]
\* a probe that downloads: it asks with GET instead of HEAD
HeadRequestByGet(url) == [method |-> "GET", url |-> url, payload |-> NoPayload]
HeadRequest(url) == [method |-> "HEAD", url |-> url, payload |-> NoPayload]
GetRequest(url) == [method |-> "GET", url |-> url, payload |-> NoPayload]
InferenceEndpoint == <<"https:", "//", "openrouter", ".", "ai", "/", "api/v1/chat/completions">>
\* the data: URL is data:<mime>;base64,<base64>
PostRequest(model, apiKey, feature, image) ==
    [method |-> "POST", url |-> InferenceEndpoint,
     payload |-> [model |-> model, prompt |-> buildPrompt(feature),
                  mime |-> image.contentType, base64 |-> image.base64,
                  bearer |-> apiKey]]

(***************************************************************************)
(* Inputs: request bodies, environment, and what the network answers.      *)
(***************************************************************************)
IPv4(a, b, c, d) == <<a, ".", b, ".", c, ".", d>>

Hostnames ==
    {<<"localhost">>, <<"[::1]">>, <<"[fe80:", ":1]">>, <<"[febf:", ":1]">>,
     <<"metadata", ".", "google", ".", "internal">>,
     <<"example", ".", "com">>, <<"EXAMPLE", ".", "com">>,
     <<"cdn", ".", "example", ".", "com">>, <<"evil", "example", ".", "com">>,
     <<"10", ".", "example", ".", "com">>,
     IPv4("0", "0", "0", "0"), IPv4("127", "0", "0", "1"), IPv4("127", "0", "0", "2"),
     IPv4("169", "254", "169", "254"), IPv4("8", "8", "8", "8")}
    \cup {IPv4(a, b, "0", "1") :
            a \in {"10", "172", "192", "169"},
            b \in {"0", "15", "16", "31", "32", "168", "254"}}

UrlOf(scheme, host) == <<scheme, "//">> \o host \o <<"/", "x.jpg">>

Urls ==
    {UrlOf(sch, h) : sch \in {"http:", "https:", "HTTP:", "ftp:"}, h \in Hostnames}
    \cup {<<"not-a-url">>, <<"//", "example", ".", "com", "/", "x.jpg">>}

\* values of ALLOWED_IMAGE_DOMAINS that do not depend on the URL
FixedAllowLists ==
    {Undefined, Str(<<>>), Str(<<" ">>), Str(<<",">>), Str(<<" ", ",", " ">>),
     Str(<<"example", ".", "com">>),
     Str(<<" ", "EXAMPLE", ".", "com", " ", ",", "other", ".", "org">>)}

\* the lists tried with a URL: the fixed ones, and lists naming the URL's own host
AllowListsFor(url) ==
    LET h == ParseURL(url).hostname
    IN  FixedAllowLists
        \cup (IF h = <<>> THEN {}
              ELSE {Str(h), Str(<<"example", ".", "com", ",">> \o h)})

ApiKeys == {Undefined, Str(<<>>), Str(<<" ", " ">>), Str(<<"sk-or-key">>)}

\* the request bodies and environments the route is run on
RouteUrls ==
    {UrlOf("https:", <<"example", ".", "com">>),
     UrlOf("http:", IPv4("192", "168", "0", "1")),
     UrlOf("https:", <<"cdn", ".", "other", ".", "net">>),
     UrlOf("ftp:", <<"example", ".", "com">>),
     UrlOf("file:", <<"example", ".", "com">>),
     <<"not-a-url">>}
RouteAllowLists == {Undefined, Str(<<"example", ".", "com">>)}
RouteFeatures ==
    {<<>>, <<Run("a", 1)>>, <<Run(" ", 2)>>, <<Run("a", MAX_FEATURE_LENGTH)>>,
     <<Run("a", MAX_FEATURE_LENGTH), Run("b", 1)>>}

Env(allowed, apiKey) ==
    [ALLOWED_IMAGE_DOMAINS |-> allowed, OPENROUTER_API_KEY |-> apiKey,
     OPENROUTER_MODEL |-> Undefined]

\* --- what axios.head may settle with ---
ContentLengths ==
    {Undefined, Str(<<>>), Str(<<"abc">>),
     Str(<<ToString(MAX_IMAGE_SIZE + MiB), "abc">>)}
    \cup {Str(<<ToString(n)>>) : n \in SizeValues}

NoResponse == [settled |-> "pending", status |-> 0, contentLength |-> Undefined,
               contentType |-> Undefined, data |-> [byteLength |-> 0, fill |-> ""],
               content |-> Undefined, error |-> NoOutcome]

Resolved(status) == [NoResponse EXCEPT !.settled = "resolved", !.status = status]
\* a rejection for a status that validateStatus refuses
RejectedStatus(status, dataErrorMessage, statusText) ==
    [NoResponse EXCEPT
       !.settled = "rejected", !.status = status,
       !.error = AxiosError("ERR_BAD_REQUEST", TRUE, status,
                            <<"Request failed with status code ", ToString(status)>>,
                            dataErrorMessage, statusText)]
\* a rejection without a response: code and message of the AxiosError
RejectedNoResponse(code, message) ==
    [NoResponse EXCEPT
       !.settled = "rejected",
       !.error = AxiosError(code, FALSE, 0, message, Undefined, <<>>)]

\* a timeout that fired after the response headers had arrived
TimeoutWithResponse(ms, status) ==
    [NoResponse EXCEPT
       !.settled = "rejected", !.status = status,
       !.error = AxiosError("ECONNABORTED", TRUE, status,
                            <<"timeout", " of ", ms, "ms exceeded">>, Undefined, <<"OK">>)]
TimeoutOf(ms) == RejectedNoResponse("ECONNABORTED", <<"timeout", " of ", ms, "ms exceeded">>)
NetworkError == RejectedNoResponse("ERR_NETWORK", <<"Network Error">>)

HeadResponses ==
    {[Resolved(200) EXCEPT !.contentLength = cl] : cl \in ContentLengths}
    \cup {[Resolved(405) EXCEPT !.contentLength = cl] :
            cl \in {Undefined, Str(<<ToString(MAX_IMAGE_SIZE + MiB)>>)}}
    \cup {[RejectedStatus(st, Undefined, <<>>) EXCEPT !.contentLength = cl] :
            st \in {404}, cl \in {Undefined, Str(<<ToString(MAX_IMAGE_SIZE + MiB)>>)}}
    \cup {TimeoutOf("5000"), NetworkError}

\* --- what axios.get may settle with ---
ContentTypes ==
    {Undefined, Str(<<>>),
     Str(<<"image/", "jpeg">>), Str(<<"IMAGE/", "JPEG">>), Str(<<"image/", "jpg">>),
     Str(<<"image/", "png", ";", " charset=binary">>), Str(<<"image/", "webp">>),
     Str(<<"image/", "gif">>), Str(<<"image/", "gif", " ", ";", " q=1">>),
     Str(<<"text/", "html">>), Str(<<"image/", "x-", "png">>),
     Str(<<" ", "Image/", "JPG", " ", ";", " q=1">>),
     Str(<<"image/", "webp", "+", "png">>)}

Image(n) == [byteLength |-> n, fill |-> "A"]

GetResponses ==
    {[Resolved(200) EXCEPT !.contentType = ct, !.data = Image(1024)] : ct \in ContentTypes}
    \cup {[Resolved(200) EXCEPT !.contentType = ct, !.data = Image(n)] :
            ct \in {Str(<<"image/", "png">>), Str(<<"image/", "gif">>)},
            n \in SizeValues \ {0, 1024}}
    \cup {RejectedStatus(404, Undefined, <<"Not Found">>),
          RejectedStatus(503, Undefined, <<"Service Unavailable">>),
          TimeoutOf("10000"), TimeoutWithResponse("10000", 200), NetworkError,
          RejectedNoResponse("ERR_BAD_RESPONSE",
                             <<"maxContentLength size of 10485760 exceeded">>)}

\* --- what axios.post may settle with ---
Doc(members) == <<"{">> \o Join(members, ",") \o <<"}">>
GoodDoc(conf) ==
    Doc(<<ExistsMember("true"), ConfidenceMember(ConfNumberText(conf)),
          ReasoningMember("\" padded \"")>>)

\* every reply text of the model: documents, bare or fenced, and plain text
Members(key, texts) == {<<>>} \cup {<<MemberToken(key, t)>> : t \in texts}
Docs ==
    {Doc(e \o c \o r) :
       e \in Members("exists", {"true", "false", "\"true\"", "null"}),
       c \in Members("confidence",
                     {ConfNumberText(n) : n \in ConfValues} \cup {"\"0.9\"", "null"}),
       r \in Members("reasoning", {"\"dog visible\"", "\" padded \"", "\"\"", "\"  \"",
                                   "null", ConfNumberText(0)})}
PlainTexts ==
    {<<"not json">>, <<"The ", "format", " is wrong">>, <<"request ", "timeout">>,
     <<"null">>, <<"[", "]">>, <<ConfNumberText(5)>>, <<"\"dog visible\"">>,
     <<"{", ExistsMember("true")>>}
Wrap(kind, text) ==
    CASE kind = "bare"     -> text
      [] kind = "json"     -> <<FenceJson, "\n">> \o text \o <<"\n", Fence>>
      [] kind = "plain"    -> <<Fence, "\n">> \o text \o <<"\n", Fence>>
      [] kind = "spaced"   -> <<" ", "\n">> \o text \o <<"\n">>
Replies ==
    {Wrap(k, t) : k \in {"bare", "json", "plain", "spaced"}, t \in Docs \cup PlainTexts}

\* the replies the route is run on
RouteReplies ==
    {GoodDoc(5), GoodDoc(MaxConfTenths), GoodDoc(0 - 3), Wrap("json", GoodDoc(9)),
     Doc(<<ExistsMember("true"), ConfidenceMember(ConfNumberText(5)),
           ReasoningMember("\"\"")>>),
     Doc(<<ExistsMember("false"), ConfidenceMember(ConfNumberText(5)),
           ReasoningMember("\"  \"")>>),
     Doc(<<ExistsMember("true")>>), <<"null">>, <<"not json">>,
     <<"The ", "format", " is wrong">>}

PostResponses ==
    {[Resolved(200) EXCEPT !.content = c] :
        c \in {Undefined, Str(<<>>)} \cup {Str(r) : r \in RouteReplies}}
    \cup {RejectedStatus(401, Str(<<"Invalid API key">>), <<"Unauthorized">>),
          RejectedStatus(400, Str(<<"Unsupported image ", "format">>), <<"Bad Request">>),
          RejectedStatus(403, Str(<<>>), <<"Forbidden">>),
          RejectedStatus(504, Str(<<"Upstream ", "timeout">>), <<"Gateway Timeout">>),
          RejectedStatus(500, Undefined, <<"Internal Server Error">>),
          RejectedStatus(429, Undefined, <<>>),
          TimeoutOf("30000"), NetworkError}

(***************************************************************************)
(* The steps of fetchImageAsBase64 and evaluateImage between awaits.       *)
(***************************************************************************)
\* a probe that swallows its own size determination as well
ProbeOutcomeSwallowsAll(r) == NoOutcome

\* a probe that is load-bearing: whatever it throws ends the fetch
ProbeOutcomeRethrowsAll(r) ==
    IF r.settled = "resolved"
    THEN IF ProbeExceeds(r.contentLength)
         THEN Thrown(SizeExceededMessage(ParseInt(r.contentLength.s).n))
         ELSE NoOutcome
    ELSE r.error

\* lines 121-147: what the probe throws out of fetchImageAsBase64, if anything
ProbeOutcome(r) ==
    LET thrown ==
          IF r.settled = "resolved"
          THEN IF ProbeExceeds(r.contentLength)
               THEN Thrown(SizeExceededMessage(ParseInt(r.contentLength.s).n))
               ELSE NoOutcome
          ELSE r.error
    IN  IF thrown.kind = "error"
           /\ Includes(thrown.message, <<"exceeds maximum allowed size">>)
        THEN thrown
        ELSE NoOutcome

\* a fetch step whose failures do not end the call
GetOutcomeIgnoresFailure(r) == [out |-> NoOutcome, image |-> NoImage]

\* lines 149-192: the settled GET as fetchImageAsBase64 returns or throws it
GetOutcome(r) ==
    IF r.settled = "rejected" THEN [out |-> r.error, image |-> NoImage] ELSE AfterGet(r)

\* lines 95-111: the settled POST as evaluateImage returns or throws it
PostOutcome(r) ==
    IF r.settled = "rejected" THEN [out |-> PostCatch(r.error), parsed |-> FALSE]
    ELSE IF ~Truthy(r.content)
    THEN [out |-> Thrown(<<"No response from AI model">>), parsed |-> FALSE]
    ELSE [out |-> parseResponse(r.content.s), parsed |-> TRUE]

(***************************************************************************)
(* The POST /evaluate-image handler as a state machine.  One action is the *)
(* code that runs between two awaits.                                      *)
(***************************************************************************)
NotValidated == [isValid |-> FALSE, error |-> "(not validated)"]

Quiet ==
    /\ urlValidation = NotValidated
    /\ serviceConstructed = FALSE
    /\ net = <<>>
    /\ trace = <<>>
    /\ headResp = NoResponse
    /\ getResp = NoResponse
    /\ postResp = NoResponse
    /\ outcome = NoOutcome
    /\ reply = NoReply

\* new VisionService({apiKey, model}): the instance holds the key and the model
NewVisionService(e) ==
    [apiKey |-> e.OPENROUTER_API_KEY.s, model |-> VisionServiceModel(e.OPENROUTER_MODEL)]
NoService == [apiKey |-> <<>>, model |-> <<>>]

\* no second request
NoPeer ==
    [pc |-> "absent", body |-> [image_url |-> <<>>, feature |-> <<>>],
     env |-> Env(Undefined, Undefined), service |-> NoService, net |-> <<>>,
     headResp |-> NoResponse, getResp |-> NoResponse, postResp |-> NoResponse,
     outcome |-> NoOutcome, reply |-> NoReply]

Init ==
    /\ pc = "received"
    /\ body \in [image_url : RouteUrls, feature : RouteFeatures]
    /\ env \in {Env(a, k) : a \in RouteAllowLists, k \in ApiKeys}
    /\ Quiet
    /\ peer = NoPeer

\* a key check that forgets to trim
ApiKeyMissingNoTrim(apiKey) == ~Truthy(apiKey)

\* !apiKey || apiKey.trim() === ""
ApiKeyMissing(apiKey) == ~Truthy(apiKey) \/ Trim(apiKey.s) = <<>>

Refuse(r, v) == [go |-> FALSE, reply |-> r, urlValidation |-> v]

\* a handler that looks at the URL verdict only after the evaluation has started
AdmissionSkipsUrlCheck(b, e) ==
    LET issues == SchemaIssues(b)
        v      == validateImageUrl(b.image_url, e.ALLOWED_IMAGE_DOMAINS)
    IN  IF issues # <<>> THEN Refuse(ErrorReply(400, JoinMessages(issues, ", ")), NotValidated)
        ELSE IF ApiKeyMissing(e.OPENROUTER_API_KEY)
        THEN Refuse(ErrorReply(500,
                 <<"Server configuration error: OpenRouter API key not configured">>), v)
        ELSE [go |-> TRUE, reply |-> NoReply, urlValidation |-> v]

\* a handler that looks for the API key before it looks at the request
AdmissionKeyFirst(b, e) ==
    LET issues == SchemaIssues(b)
        v      == validateImageUrl(b.image_url, e.ALLOWED_IMAGE_DOMAINS)
    IN  IF ApiKeyMissing(e.OPENROUTER_API_KEY)
        THEN Refuse(ErrorReply(500,
                 <<"Server configuration error: OpenRouter API key not configured">>),
                    NotValidated)
        ELSE IF issues # <<>>
        THEN Refuse(ErrorReply(400, JoinMessages(issues, ", ")), NotValidated)
        ELSE IF ~v.isValid
        THEN Refuse(ErrorReply(400, <<IF v.error # "" THEN v.error
                                      ELSE "Invalid image URL">>), v)
        ELSE [go |-> TRUE, reply |-> NoReply, urlValidation |-> v]

\* lines 79-107: body validation, URL validation, API key, in this order
Admission(b, e) ==
    LET issues == SchemaIssues(b)
        v      == validateImageUrl(b.image_url, e.ALLOWED_IMAGE_DOMAINS)
    IN  IF issues # <<>> THEN Refuse(ErrorReply(400, JoinMessages(issues, ", ")), NotValidated)
        ELSE IF ~v.isValid
        THEN Refuse(ErrorReply(400, <<IF v.error # "" THEN v.error
                                      ELSE "Invalid image URL">>), v)
        ELSE IF ApiKeyMissing(e.OPENROUTER_API_KEY)
        THEN Refuse(ErrorReply(500,
                 <<"Server configuration error: OpenRouter API key not configured">>), v)
        ELSE [go |-> TRUE, reply |-> NoReply, urlValidation |-> v]

\* the route ends the request with this reply
Send(r) ==
    /\ reply' = r
    /\ pc' = "done"

\* lines 78-116 up to the first await inside evaluateImage (the HEAD probe)
HandleRequest ==
    /\ pc = "received"
    /\ urlValidation' = Admission(body, env).urlValidation
    /\ IF Admission(body, env).go
       THEN /\ serviceConstructed' = TRUE
            /\ trace' = <<"evaluateImage", "probe">>
            /\ net' = <<HeadRequest(body.image_url)>>
            /\ pc' = "awaitHead"
            /\ UNCHANGED reply
       ELSE /\ Send(Admission(body, env).reply)
            /\ UNCHANGED <<serviceConstructed, net, trace>>
    /\ UNCHANGED <<peer, body, env, headResp, getResp, postResp, outcome>>

\* evaluateImage rejects with error: the route's catch block answers
Fail(error) ==
    /\ outcome' = error
    /\ Send(RouteCatch(error))

\* axios.head settles: lines 127-147, then the GET is issued (line 149)
HeadSettlesOn(responses) ==
    /\ pc = "awaitHead"
    /\ \E r \in responses :
          /\ headResp' = r
          /\ IF ProbeOutcome(r).kind = "error"
             THEN /\ Fail(FetchCatch(ProbeOutcome(r)))
                  /\ UNCHANGED <<net, trace>>
             ELSE /\ net' = Append(net, GetRequest(body.image_url))
                  /\ trace' = Append(trace, "fetch")
                  /\ pc' = "awaitGet"
                  /\ UNCHANGED <<outcome, reply>>
    /\ UNCHANGED <<peer, body, env, urlValidation, serviceConstructed, getResp, postResp>>

HeadSettles == HeadSettlesOn(HeadResponses)

\* axios.get settles: lines 157-192, the catch of lines 53-66, then the POST (line 70)
GetSettlesOn(responses) ==
    /\ pc = "awaitGet"
    /\ \E r \in responses :
          /\ getResp' = r
          /\ IF GetOutcome(r).out.kind = "error"
             THEN /\ Fail(FetchCatch(GetOutcome(r).out))
                  /\ UNCHANGED <<net, trace>>
             ELSE /\ net' = Append(net, PostRequest(VisionServiceModel(env.OPENROUTER_MODEL),
                                                    env.OPENROUTER_API_KEY.s, body.feature,
                                                    GetOutcome(r).image))
                  /\ trace' = trace \o <<"prompt", "post">>
                  /\ pc' = "awaitPost"
                  /\ UNCHANGED <<outcome, reply>>
    /\ UNCHANGED <<peer, body, env, urlValidation, serviceConstructed, headResp, postResp>>

GetSettles == GetSettlesOn(GetResponses)

\* axios.post settles: lines 95-111, then lines 117-130 of the route
PostSettlesOn(responses) ==
    /\ pc = "awaitPost"
    /\ \E r \in responses :
          /\ postResp' = r
          /\ trace' = IF PostOutcome(r).parsed THEN Append(trace, "parse") ELSE trace
          /\ IF PostOutcome(r).out.kind = "error"
             THEN Fail(PostOutcome(r).out)
             ELSE /\ outcome' = PostOutcome(r).out
                  /\ Send(ResultReply(PostOutcome(r).out.result))
    /\ UNCHANGED <<peer, body, env, urlValidation, serviceConstructed, net, headResp, getResp>>

PostSettles == PostSettlesOn(PostResponses)

Next == HandleRequest \/ HeadSettles \/ GetSettles \/ PostSettles

Spec == Init /\ [][Next]_vars

(***************************************************************************)
(* validateImageUrl alone, on every URL and allowlist of the model.        *)
(***************************************************************************)
InitUrl ==
    /\ pc = "url_in"
    /\ \E u \in Urls : \E a \in AllowListsFor(u) :
          /\ body = [image_url |-> u, feature |-> <<Run("a", 1)>>]
          /\ env = Env(a, Str(<<"sk-or-key">>))
    /\ Quiet
    /\ peer = NoPeer

ValidateUrl ==
    /\ pc = "url_in"
    /\ urlValidation' = validateImageUrl(body.image_url, env.ALLOWED_IMAGE_DOMAINS)
    /\ pc' = "url_out"
    /\ UNCHANGED <<peer, body, env, serviceConstructed, net, trace, headResp, getResp,
                   postResp, outcome, reply>>

NextUrl == ValidateUrl

SpecUrl == InitUrl /\ [][NextUrl]_vars

(***************************************************************************)
(* parseResponse alone, on every reply text of the model.                  *)
(***************************************************************************)
InitParse ==
    /\ pc = "parse_in"
    /\ body = [image_url |-> UrlOf("https:", <<"example", ".", "com">>),
               feature |-> <<Run("a", 1)>>]
    /\ env = Env(Undefined, Str(<<"sk-or-key">>))
    /\ urlValidation = NotValidated
    /\ serviceConstructed = FALSE
    /\ net = <<>>
    /\ trace = <<>>
    /\ headResp = NoResponse
    /\ getResp = NoResponse
    /\ postResp \in {[Resolved(200) EXCEPT !.content = Str(r)] : r \in Replies}
    /\ outcome = NoOutcome
    /\ reply = NoReply
    /\ peer = NoPeer

ParseReply ==
    /\ pc = "parse_in"
    /\ outcome' = parseResponse(postResp.content.s)
    /\ pc' = "parse_out"
    /\ UNCHANGED <<peer, body, env, urlValidation, serviceConstructed, net, trace, headResp,
                   getResp, postResp, reply>>

NextParse == ParseReply

SpecParse == InitParse /\ [][NextParse]_vars

(***************************************************************************)
(* Two requests in flight at once.  The first runs through the actions     *)
(* above; the second is the record peer, stepped by the same code.  Each   *)
(* handler invocation has its own locals and its own VisionService; the    *)
(* process shares process.env, which is read once per request (the key may *)
(* have been changed between two requests).                                *)
(***************************************************************************)
\* a module-level instance shared by the handlers: the other request's is used
visionServiceShared(own, other) == other

\* const visionService = new VisionService(...): the handler's own instance
visionService(own, other) == own

PeerBodies ==
    {[image_url |-> UrlOf("https:", <<"cdn", ".", "example", ".", "com">>),
      feature |-> <<Run("b", 2)>>],
     [image_url |-> UrlOf("http:", IPv4("10", "0", "0", "1")), feature |-> <<Run("b", 2)>>]}
PeerApiKeys == {Str(<<"sk-or-key">>), Str(<<"sk-other-key">>)}
PairHeadResponses ==
    {Resolved(200), TimeoutOf("5000"),
     [Resolved(200) EXCEPT !.contentLength = Str(<<ToString(MAX_IMAGE_SIZE + MiB)>>)]}
PairGetResponses ==
    {[Resolved(200) EXCEPT !.contentType = Str(<<"image/", "png">>), !.data = Image(1024)],
     RejectedStatus(404, Undefined, <<"Not Found">>)}
PairPostResponses ==
    {[Resolved(200) EXCEPT !.content = Str(GoodDoc(9))],
     RejectedStatus(401, Str(<<"Invalid API key">>), <<"Unauthorized">>)}

InitPair ==
    /\ pc = "received"
    /\ body = [image_url |-> UrlOf("https:", <<"example", ".", "com">>),
               feature |-> <<Run("a", 1)>>]
    /\ env = Env(Undefined, Str(<<"sk-or-key">>))
    /\ Quiet
    /\ peer \in {[NoPeer EXCEPT !.pc = "received", !.body = b, !.env = Env(Undefined, k)] :
                    b \in PeerBodies, k \in PeerApiKeys}

own == <<pc, body, env, urlValidation, serviceConstructed, net, trace,
         headResp, getResp, postResp, outcome, reply>>

PeerHandle ==
    /\ peer.pc = "received"
    /\ IF Admission(peer.body, peer.env).go
       THEN peer' = [peer EXCEPT !.pc = "awaitHead",
                                 !.service = NewVisionService(peer.env),
                                 !.net = <<HeadRequest(peer.body.image_url)>>]
       ELSE peer' = [peer EXCEPT !.pc = "done",
                                 !.reply = Admission(peer.body, peer.env).reply]
    /\ UNCHANGED own

PeerHeadSettles ==
    /\ peer.pc = "awaitHead"
    /\ \E r \in PairHeadResponses :
          IF ProbeOutcome(r).kind = "error"
          THEN peer' = [peer EXCEPT !.pc = "done", !.headResp = r,
                                    !.outcome = FetchCatch(ProbeOutcome(r)),
                                    !.reply = RouteCatch(FetchCatch(ProbeOutcome(r)))]
          ELSE peer' = [peer EXCEPT !.pc = "awaitGet", !.headResp = r,
                                    !.net = Append(@, GetRequest(peer.body.image_url))]
    /\ UNCHANGED own

PeerGetSettles ==
    /\ peer.pc = "awaitGet"
    /\ \E r \in PairGetResponses :
          IF GetOutcome(r).out.kind = "error"
          THEN peer' = [peer EXCEPT !.pc = "done", !.getResp = r,
                                    !.outcome = FetchCatch(GetOutcome(r).out),
                                    !.reply = RouteCatch(FetchCatch(GetOutcome(r).out))]
          ELSE LET svc == visionService(peer.service, NewVisionService(env))
               IN  peer' = [peer EXCEPT !.pc = "awaitPost", !.getResp = r,
                                        !.net = Append(@, PostRequest(svc.model, svc.apiKey,
                                                                     peer.body.feature,
                                                                     GetOutcome(r).image))]
    /\ UNCHANGED own

PeerPostSettles ==
    /\ peer.pc = "awaitPost"
    /\ \E r \in PairPostResponses :
          peer' = [peer EXCEPT !.pc = "done", !.postResp = r,
                               !.outcome = PostOutcome(r).out,
                               !.reply = IF PostOutcome(r).out.kind = "error"
                                         THEN RouteCatch(PostOutcome(r).out)
                                         ELSE ResultReply(PostOutcome(r).out.result)]
    /\ UNCHANGED own

NextPair ==
    \/ HandleRequest \/ HeadSettlesOn(PairHeadResponses)
    \/ GetSettlesOn(PairGetResponses) \/ PostSettlesOn(PairPostResponses)
    \/ PeerHandle \/ PeerHeadSettles \/ PeerGetSettles \/ PeerPostSettles

SpecPair == InitPair /\ [][NextPair]_vars

(***************************************************************************)
(* Properties.                                                             *)
(***************************************************************************)
\* what the reply under parse reports, read off the parsed document
Reported(key) == Property(JSONParse(CleanContent(postResp.content.s)).members, key)

\* C1: every result parseResponse returns has 0 <= confidence <= 1; a reported
\* value above 1 comes back as 1, one below 0 as 0, one inside [0,1] unchanged;
\* and a reply with a boolean exists, a numeric confidence of any size and a
\* string reasoning is never refused.
C1_ConfidenceClamped ==
    pc = "parse_out" =>
       /\ outcome.kind = "ok" =>
             /\ 0 <= outcome.result.confidence
             /\ outcome.result.confidence <= ConfOne
             /\ Reported("confidence").n > ConfOne => outcome.result.confidence = ConfOne
             /\ Reported("confidence").n < 0 => outcome.result.confidence = 0
             /\ Reported("confidence").n \in 0..ConfOne =>
                   outcome.result.confidence = Reported("confidence").n
       /\ ( /\ Reported("exists").t = "boolean"
            /\ Reported("confidence").t = "number"
            /\ Reported("reasoning").t = "string" ) => outcome.kind = "ok"

\* a reply reporting a confidence above 1 was parsed and came back as exactly 1
C1_Witness ==
    /\ pc = "parse_out"
    /\ outcome.kind = "ok"
    /\ Reported("confidence").n = MaxConfTenths
    /\ MaxConfTenths > ConfOne
    /\ outcome.result.confidence = ConfOne

HostnameOf(url) == ParseURL(url).hostname

\* C2: a URL whose hostname matches one of the validator's private, loopback,
\* link-local or metadata patterns is never valid, whatever its protocol and
\* whatever ALLOWED_IMAGE_DOMAINS holds (also that very hostname).
C2_BlockedWhateverAllowlist ==
    ( /\ pc = "url_out"
      /\ ParseURL(body.image_url).ok
      /\ \/ IsPrivateHost(HostnameOf(body.image_url))
         \/ IsMetadataHost(HostnameOf(body.image_url)) )
    => ~urlValidation.isValid

\* an https URL to a private host that the allowlist names was validated and refused
C2_Witness ==
    /\ pc = "url_out"
    /\ ParseURL(body.image_url).protocol = "https:"
    /\ IsPrivateHost(HostnameOf(body.image_url))
    /\ env.ALLOWED_IMAGE_DOMAINS = Str(HostnameOf(body.image_url))
    /\ IsAllowed(HostnameOf(body.image_url),
                 AllowedDomainList(env.ALLOWED_IMAGE_DOMAINS.s))
    /\ ~urlValidation.isValid

\* the address ranges as numbers, for dotted-quad hostnames
IsOctet(tok) == \E n \in 0..255 : ToString(n) = tok
Octet(tok) == CHOOSE n \in 0..255 : ToString(n) = tok
IsIPv4Literal(h) ==
    /\ Len(h) = 7
    /\ h[2] = "." /\ h[4] = "." /\ h[6] = "."
    /\ IsOctet(h[1]) /\ IsOctet(h[3]) /\ IsOctet(h[5]) /\ IsOctet(h[7])

\* localhost, 127.0.0.0/8, 10.0.0.0/8, 172.16.0.0/12, 192.168.0.0/16, 169.254.0.0/16,
\* ::1, fe80::/10, 169.254.169.254 and metadata.google.internal
InBlockedRange(h) ==
    \/ h = <<"localhost">>
    \/ h = <<"metadata", ".", "google", ".", "internal">>
    \/ h = <<"[::1]">>
    \/ h # <<>> /\ h[1] \in {"[fe80:", "[febf:"}
    \/ /\ IsIPv4Literal(h)
       /\ \/ Octet(h[1]) = 127
          \/ Octet(h[1]) = 10
          \/ Octet(h[1]) = 172 /\ Octet(h[3]) \in 16..31
          \/ Octet(h[1]) = 192 /\ Octet(h[3]) = 168
          \/ Octet(h[1]) = 169 /\ Octet(h[3]) = 254

\* C3: validateImageUrl refuses every hostname that is localhost, in 127.0.0.0/8,
\* in 10.0.0.0/8, 172.16.0.0/12, 192.168.0.0/16 or 169.254.0.0/16, an IPv6
\* loopback or link-local literal, or a metadata host.
C3_BlocksWholeRanges ==
    ( /\ pc = "url_out"
      /\ ParseURL(body.image_url).ok
      /\ InBlockedRange(HostnameOf(body.image_url)) )
    => ~urlValidation.isValid

\* C4: when validateImageUrl refuses the image_url the request ends with 400 and
\* status "error", no VisionService is built and nothing is sent; every HEAD or
\* GET goes to the request's image_url, which validateImageUrl accepted.
C4_RejectedUrlNoOutbound ==
    /\ ( /\ SchemaIssues(body) = <<>>
         /\ ~validateImageUrl(body.image_url, env.ALLOWED_IMAGE_DOMAINS).isValid )
       => /\ net = <<>>
          /\ ~serviceConstructed
          /\ trace = <<>>
          /\ pc = "done" => reply.status = 400 /\ reply.bodyStatus = "error"
    /\ \A i \in 1..Len(net) :
          net[i].method \in {"HEAD", "GET"} =>
             /\ net[i].url = body.image_url
             /\ validateImageUrl(net[i].url, env.ALLOWED_IMAGE_DOMAINS).isValid

\* a request for a private address was answered 400 with nothing sent
C4_Witness ==
    /\ pc = "done"
    /\ SchemaIssues(body) = <<>>
    /\ IsPrivateHost(HostnameOf(body.image_url))
    /\ ~ApiKeyMissing(env.OPENROUTER_API_KEY)
    /\ reply.status = 400
    /\ net = <<>>

\* the kind of failure a finished request ended with, from what happened to it
FailureKind ==
    IF reply.bodyStatus # "error" THEN "None"
    ELSE IF SchemaIssues(body) # <<>> THEN "Validation"
    ELSE IF ~urlValidation.isValid THEN "Security"
    ELSE IF ApiKeyMissing(env.OPENROUTER_API_KEY) THEN "Configuration"
    ELSE IF headResp.settled = "resolved" /\ getResp.settled = "pending" THEN "SizeExceeded"
    ELSE IF getResp.settled = "rejected"
    THEN IF getResp.error.axios.code = "ECONNABORTED" THEN "Timeout" ELSE "Fetch"
    ELSE IF getResp.settled = "resolved" /\ postResp.settled = "pending"
    THEN IF getResp.data.byteLength > MAX_IMAGE_SIZE THEN "SizeExceeded"
         ELSE "UnsupportedFormat"
    ELSE IF postResp.settled = "rejected" THEN "Upstream"
    ELSE "ParseFailure"

\* C5: a request that failed with kind Validation, Security, Fetch,
\* UnsupportedFormat or SizeExceeded is answered with status 400.
C5_ClientFailuresAre400 ==
    ( /\ pc = "done"
      /\ FailureKind \in {"Validation", "Security", "Fetch", "UnsupportedFormat",
                          "SizeExceeded"} )
    => reply.status = 400

\* C6: a request that failed in the upstream call or in the parser is answered
\* with status 500, whatever words its message carries.
C6_UpstreamFailuresAre500 ==
    (pc = "done" /\ FailureKind \in {"Upstream", "ParseFailure"}) => reply.status = 500

\* the key is unset, empty or made of white space only
KeyIsBlank(apiKey) == ~apiKey.defined \/ \A i \in 1..Len(apiKey.s) : IsSpace(apiKey.s[i])

\* C7: with the API key unset, empty or white space, a request whose body and
\* URL are valid is answered 500 with the configuration error; evaluateImage is
\* never invoked and nothing is sent.
C7_MissingKeyNoEvaluation ==
    ( /\ SchemaIssues(body) = <<>>
      /\ validateImageUrl(body.image_url, env.ALLOWED_IMAGE_DOMAINS).isValid
      /\ KeyIsBlank(env.OPENROUTER_API_KEY) )
    => /\ trace = <<>>
       /\ net = <<>>
       /\ ~serviceConstructed
       /\ pc = "done" =>
             /\ reply.status = 500
             /\ reply.bodyStatus = "error"
             /\ reply.error =
                  <<"Server configuration error: OpenRouter API key not configured">>

\* a valid request met a white-space key and was answered 500
C7_Witness ==
    /\ pc = "done"
    /\ SchemaIssues(body) = <<>>
    /\ urlValidation.isValid
    /\ env.OPENROUTER_API_KEY = Str(<<" ", " ">>)
    /\ reply.status = 500
    /\ net = <<>>

IsPrefixOf(s, t) == Len(s) <= Len(t) /\ SubSeq(t, 1, Len(s)) = s
Methods == [i \in 1..Len(net) |-> net[i].method]
\* the GET resolved with a declared type that is non-empty and names no allowed type
DeclaredTypeUnsupported ==
    /\ getResp.settled = "resolved"
    /\ CleanContentType(getResp.contentType) # <<>>
    /\ \A type \in {<<"image/", "jpeg">>, <<"image/", "jpg">>, <<"image/", "png">>,
                    <<"image/", "webp">>} :
          ~Includes(CleanContentType(getResp.contentType), type)

\* the image fetch failed: the GET was rejected, or its body is over the cap, or
\* its declared type is unsupported
GetFailed ==
    \/ getResp.settled = "rejected"
    \/ getResp.settled = "resolved" /\ getResp.data.byteLength > 10 * 1024 * 1024
    \/ DeclaredTypeUnsupported
PostFailed ==
    postResp.settled = "rejected" \/ (postResp.settled = "resolved" /\ ~Truthy(postResp.content))

\* C8: the steps of one evaluateImage call run in the order probe, fetch, build
\* prompt, call upstream, parse; a failed fetch ends the call with no POST, a
\* failed POST ends it with no parse, and the call ends with a complete result
\* or with an error, never with both or with part of a result.
C8_SequentialAllOrNothing ==
    /\ IsPrefixOf(trace, <<"evaluateImage", "probe", "fetch", "prompt", "post", "parse">>)
    /\ IsPrefixOf(Methods, <<"HEAD", "GET", "POST">>)
    /\ GetFailed =>
          /\ pc = "done" /\ outcome.kind = "error"
          /\ \A i \in 1..Len(net) : net[i].method # "POST"
    /\ PostFailed =>
          /\ pc = "done" /\ outcome.kind = "error"
          /\ \A i \in 1..Len(trace) : trace[i] # "parse"
    /\ (pc = "done" /\ trace # <<>>) =>
          \/ /\ outcome.kind = "ok"
             /\ outcome.result.status = "success"
             /\ trace[Len(trace)] = "parse"
             /\ reply = ResultReply(outcome.result)
          \/ /\ outcome.kind = "error"
             /\ outcome.result = NoResult
             /\ reply.result = NoResult
             /\ reply.status # 200

\* a call whose image fetch failed ended with an error after HEAD and GET only
C8_Witness ==
    /\ pc = "done"
    /\ getResp.settled = "rejected"
    /\ Methods = <<"HEAD", "GET">>
    /\ outcome.kind = "error"

\* the HEAD probe resolved with a content-length above the cap
DeclaredTooLarge ==
    /\ headResp.settled = "resolved"
    /\ headResp.contentLength.defined
    /\ ~ParseInt(headResp.contentLength.s).nan
    /\ ParseInt(headResp.contentLength.s).n > 10 * 1024 * 1024

\* C9: when the HEAD probe reports a content-length that parses to more than
\* 10 MiB the call fails at once with the size error naming the declared size
\* in MB and the 10MB limit, and no GET is issued.
C9_DeclaredSizeStopsFetch ==
    DeclaredTooLarge =>
       /\ pc = "done"
       /\ Methods = <<"HEAD">>
       /\ outcome.kind = "error"
       /\ outcome.message =
            <<"Image size (",
              ToString((ParseInt(headResp.contentLength.s).n + 524288) \div 1048576),
              "MB) ", "exceeds maximum allowed size", " (10MB)">>

\* a probe declaring 11 MiB ended the call with "11MB" in the message and no GET
C9_Witness ==
    /\ pc = "done"
    /\ headResp.settled = "resolved"
    /\ headResp.contentLength = Str(<<ToString(11 * 1024 * 1024)>>)
    /\ outcome.message[2] = "11"
    /\ Methods = <<"HEAD">>

NamesType(message, type) ==
    Includes(message, <<"Unsupported image ", "format", ": ">> \o type)

\* C10 as stated: a GET response declaring an unsupported type makes the fetch
\* fail with the unsupported-format error naming that type.
C10_UnsupportedTypeNamed ==
    DeclaredTypeUnsupported =>
       /\ pc = "done"
       /\ outcome.kind = "error"
       /\ NamesType(outcome.message, CleanContentType(getResp.contentType))

\* C10 amended: a GET response declaring an unsupported type never yields a
\* base64 payload (the call fails and no POST is made); the failure is the
\* unsupported-format error naming that type when the body is at most 10 MiB,
\* and the size error when the body is larger.
C10_UnsupportedTypeRejected ==
    DeclaredTypeUnsupported =>
       /\ pc = "done"
       /\ outcome.kind = "error"
       /\ Methods = <<"HEAD", "GET">>
       /\ getResp.data.byteLength <= MAX_IMAGE_SIZE =>
             NamesType(outcome.message, CleanContentType(getResp.contentType))
       /\ getResp.data.byteLength > MAX_IMAGE_SIZE =>
             Includes(outcome.message, <<"exceeds maximum allowed size">>)

\* an image/gif response with parameters was refused by name
C10_Witness ==
    /\ pc = "done"
    /\ getResp.settled = "resolved"
    /\ getResp.contentType = Str(<<"image/", "gif", " ", ";", " q=1">>)
    /\ NamesType(outcome.message, <<"image/", "gif">>)
    /\ Methods = <<"HEAD", "GET">>

\* the non-empty entries of an allowlist, each trimmed and lowercased
AllowlistEntries(list) ==
    IF ~Truthy(list) THEN {}
    ELSE LET parts == Split(list.s, ",")
         IN  {ToLowerCase(Trim(parts[i])) : i \in 1..Len(parts)} \ {<<>>}

\* the hostname is an entry, or a subdomain of an entry at a dot boundary
MatchesEntry(h, entries) ==
    \E d \in entries :
        \/ h = d
        \/ /\ Len(h) > Len(d)
           /\ SubSeq(h, Len(h) - Len(d) + 1, Len(h)) = d
           /\ h[Len(h) - Len(d)] = "."

\* C11: when ALLOWED_IMAGE_DOMAINS has at least one non-empty entry, a URL is
\* valid only if its lowercased hostname equals an entry (trimmed, lowercased)
\* or ends with "." followed by an entry; every other http(s) URL, also one whose
\* hostname ends with an entry without a dot boundary, is refused with the
\* domain-not-allowed reason.
C11_AllowlistDotBoundary ==
    ( /\ pc = "url_out"
      /\ AllowlistEntries(env.ALLOWED_IMAGE_DOMAINS) # {} )
    => LET h == ToLowerCase(HostnameOf(body.image_url))
           matches == MatchesEntry(h, AllowlistEntries(env.ALLOWED_IMAGE_DOMAINS))
       IN  /\ urlValidation.isValid => matches
           /\ ( /\ ParseURL(body.image_url).ok
                /\ ParseURL(body.image_url).protocol \in {"http:", "https:"}
                /\ ~matches )
              => urlValidation = Invalid("image_url domain is not in the allowed list")

\* evilexample.com was refused against the list "example.com"
C11_Witness ==
    /\ pc = "url_out"
    /\ body.image_url = UrlOf("https:", <<"evil", "example", ".", "com">>)
    /\ env.ALLOWED_IMAGE_DOMAINS = Str(<<"example", ".", "com">>)
    /\ urlValidation = Invalid("image_url domain is not in the allowed list")

\* the request's URL passes the schema: it parses and its scheme is http or https
UrlPassesSchema ==
    ParseURL(body.image_url).ok /\ ParseURL(body.image_url).protocol \in {"http:", "https:"}

\* C12: a feature of exactly 500 characters passes request validation, one of
\* 501 characters is refused with a "too long" message and the empty string
\* with a "cannot be empty" message; the route answers each refusal with 400.
C12_FeatureLengthBoundary ==
    pc # "received" =>
       /\ (FeatureLength(body.feature) = 500 /\ UrlPassesSchema)
             => urlValidation # NotValidated
       /\ FeatureLength(body.feature) = 501
             => /\ pc = "done" /\ reply.status = 400 /\ reply.bodyStatus = "error"
                /\ Includes(reply.error, <<"too long">>)
                /\ urlValidation = NotValidated /\ net = <<>>
       /\ FeatureLength(body.feature) = 0
             => /\ pc = "done" /\ reply.status = 400 /\ reply.bodyStatus = "error"
                /\ Includes(reply.error, <<"cannot be empty">>)
                /\ urlValidation = NotValidated /\ net = <<>>

\* a request with a feature of exactly 500 characters was answered 200
C12_Witness ==
    /\ pc = "done"
    /\ FeatureLength(body.feature) = 500
    /\ reply.status = 200

\* the feature has characters, all of them whitespace
WhitespaceOnly(feature) ==
    /\ FeatureLength(feature) > 0
    /\ \A i \in 1..Len(feature) : feature[i].n > 0 => IsSpace(feature[i].ch)

\* C13: a feature made only of whitespace is refused by request validation
\* with 400 and never reaches the prompt builder.
C13_WhitespaceFeatureRefused ==
    (pc # "received" /\ WhitespaceOnly(body.feature)) =>
       /\ pc = "done" /\ reply.status = 400
       /\ \A i \in 1..Len(trace) : trace[i] # "prompt"
       /\ \A i \in 1..Len(net) : net[i].payload.prompt.feature # body.feature

\* C14: a URL that parses but whose scheme is neither http nor https fails
\* request validation, the first issue's message contains "HTTP/HTTPS", and the
\* route answers 400 with an error text that contains "HTTP/HTTPS".
C14_NonHttpSchemeRefused ==
    ( /\ pc # "received"
      /\ ParseURL(body.image_url).ok
      /\ ParseURL(body.image_url).protocol \notin {"http:", "https:"} )
    => /\ pc = "done" /\ reply.status = 400 /\ reply.bodyStatus = "error"
       /\ Includes(Split(reply.error, ", ")[1], <<"HTTP/HTTPS">>)
       /\ Includes(reply.error, <<"HTTP/HTTPS">>)
       /\ urlValidation = NotValidated /\ net = <<>>

\* an ftp URL sent with an empty feature was answered 400, the protocol issue first
C14_Witness ==
    /\ pc = "done"
    /\ body.image_url = UrlOf("ftp:", <<"example", ".", "com">>)
    /\ body.feature = <<>>
    /\ reply.status = 400
    /\ Includes(Split(reply.error, ", ")[1], <<"HTTP/HTTPS">>)
    /\ Len(Split(reply.error, ", ")) = 2

\* C15: every result of a successful evaluateImage has a non-empty reasoning
\* string, also when the model replied with an empty or whitespace reasoning.
C15_ReasoningNonEmpty ==
    (pc = "done" /\ outcome.kind = "ok") =>
       /\ outcome.result.reasoning # <<>>
       /\ reply.result.reasoning # <<>>

\* rejection values that are not Error objects (a string, undefined, a plain object)
NonErrorRejections ==
    {[kind |-> "error", result |-> NoResult, name |-> n, message |-> m, axios |-> NoAxios] :
        n \in {"string", "undefined", "object"},
        m \in {<<>>, <<"String error">>, <<"fetch", " failed">>}}

\* a reply is either a complete success result or an error body
WellFormedReply(r) ==
    \/ /\ r.status = 200
       /\ r.bodyStatus = "success" /\ r.result.status = "success" /\ r.error = <<>>
       /\ r.result.exists \in BOOLEAN
       /\ r.result.confidence \in 0..ConfOne
    \/ /\ r.status \in {400, 500}
       /\ r.bodyStatus = "error" /\ r.result = NoResult /\ r.error # <<>>

Issued(method) == Cardinality({i \in 1..Len(net) : net[i].method = method})

\* C18: nothing is retried: one evaluateImage call issues at most one HEAD and
\* at most one GET, both to the image URL, and at most one POST to the
\* inference endpoint, whatever fails.
C18_NoRetry ==
    /\ Issued("HEAD") <= 1 /\ Issued("GET") <= 1 /\ Issued("POST") <= 1
    /\ Len(net) <= 3
    /\ \A i \in 1..Len(net) :
          net[i].url = IF net[i].method = "POST" THEN InferenceEndpoint
                       ELSE body.image_url

\* a call whose HEAD, GET and POST were each issued once ended with the POST's failure
C18_Witness ==
    /\ pc = "done"
    /\ headResp.settled = "rejected"
    /\ postResp.settled = "rejected"
    /\ Issued("HEAD") = 1 /\ Issued("GET") = 1 /\ Issued("POST") = 1

\* C19: the HEAD probe is advisory: unless it resolved with a content-length
\* above the cap, its settlement (timeout, network error, 405 or another
\* status, missing or non-numeric content-length) is swallowed, the GET is
\* issued, and the fetch ends as the GET alone decides.
C19_ProbeAdvisory ==
    (headResp.settled # "pending" /\ ~DeclaredTooLarge) =>
       /\ Len(net) >= 2 /\ net[2] = GetRequest(body.image_url)
       /\ pc = "awaitGet" => outcome = NoOutcome /\ reply = NoReply
       /\ getResp.settled # "pending" =>
             IF GetOutcome(getResp).out.kind = "error"
             THEN /\ pc = "done"
                  /\ outcome = FetchCatch(GetOutcome(getResp).out)
                  /\ Len(net) = 2
             ELSE /\ Len(net) = 3
                  /\ net[3].payload.base64 = GetOutcome(getResp).image.base64
                  /\ net[3].payload.mime = GetOutcome(getResp).image.contentType

\* a probe that timed out was followed by a GET whose image went to the POST
C19_Witness ==
    /\ headResp = TimeoutOf("5000")
    /\ getResp.settled = "resolved"
    /\ Len(net) = 3
    /\ net[3].payload.base64 = Base64(getResp.data)

\* the message of the size error for a size in bytes
SizeErrorText(size) ==
    <<"Image size (", ToString((size + 524288) \div 1048576), "MB) ",
      "exceeds maximum allowed size", " (10MB)">>

\* C20: a downloaded body of more than 10*1024*1024 bytes fails with the size
\* error whatever the probe reported, a body of at most that many bytes is
\* never refused for its size, and the probe uses the same strict threshold:
\* a declared length of exactly 10*1024*1024 does not stop the fetch.
C20_StrictSizeThreshold ==
    /\ (getResp.settled = "resolved" /\ getResp.data.byteLength > 10 * 1024 * 1024) =>
          /\ pc = "done"
          /\ outcome = Thrown(SizeErrorText(getResp.data.byteLength))
          /\ Issued("POST") = 0
    /\ (getResp.settled = "resolved" /\ getResp.data.byteLength <= 10 * 1024 * 1024) =>
          ~Includes(outcome.message, <<"exceeds maximum allowed size">>)
    /\ ( /\ headResp.settled = "resolved"
         /\ headResp.contentLength.defined
         /\ ~ParseInt(headResp.contentLength.s).nan )
       => (ParseInt(headResp.contentLength.s).n > 10 * 1024 * 1024)
             <=> (pc = "done" /\ Issued("GET") = 0
                  /\ Includes(outcome.message, <<"exceeds maximum allowed size">>))

\* a body one byte above the cap was refused after a probe that declared no length
C20_Witness ==
    /\ pc = "done"
    /\ headResp.settled = "resolved"
    /\ ~headResp.contentLength.defined
    /\ getResp.settled = "resolved"
    /\ getResp.data.byteLength = 10 * 1024 * 1024 + 1
    /\ outcome = Thrown(SizeErrorText(getResp.data.byteLength))

\* one request run alone on its inputs and on the settlements of its own
\* requests: the requests it issues and the reply it ends with
LoneRun(b, e, h, g, p) ==
    LET a    == Admission(b, e)
        head == HeadRequest(b.image_url)
        get  == GetRequest(b.image_url)
        post == PostRequest(VisionServiceModel(e.OPENROUTER_MODEL), e.OPENROUTER_API_KEY.s,
                            b.feature, GetOutcome(g).image)
    IN  IF ~a.go THEN [net |-> <<>>, reply |-> a.reply]
        ELSE IF ProbeOutcome(h).kind = "error"
        THEN [net |-> <<head>>, reply |-> RouteCatch(FetchCatch(ProbeOutcome(h)))]
        ELSE IF GetOutcome(g).out.kind = "error"
        THEN [net |-> <<head, get>>, reply |-> RouteCatch(FetchCatch(GetOutcome(g).out))]
        ELSE [net |-> <<head, get, post>>,
              reply |-> IF PostOutcome(p).out.kind = "error"
                        THEN RouteCatch(PostOutcome(p).out)
                        ELSE ResultReply(PostOutcome(p).out.result)]

\* C16: two requests in flight at once do not interfere: under every
\* interleaving each request issues the requests and ends with the reply that
\* it would have alone on its own body, its own environment reading and the
\* settlements of its own requests; in particular each POST carries the key,
\* the feature and the image of the request it belongs to.
C16_NoInterference ==
    /\ pc = "done" =>
          /\ reply = LoneRun(body, env, headResp, getResp, postResp).reply
          /\ net = LoneRun(body, env, headResp, getResp, postResp).net
    /\ peer.pc = "done" =>
          /\ peer.reply = LoneRun(peer.body, peer.env, peer.headResp, peer.getResp,
                                  peer.postResp).reply
          /\ peer.net = LoneRun(peer.body, peer.env, peer.headResp, peer.getResp,
                                peer.postResp).net
    /\ Len(net) = 3 =>
          /\ net[3].payload.bearer = env.OPENROUTER_API_KEY.s
          /\ net[3].payload.prompt = buildPrompt(body.feature)
          /\ net[3].payload.base64 = Base64(getResp.data)
    /\ Len(peer.net) = 3 =>
          /\ peer.net[3].payload.bearer = peer.env.OPENROUTER_API_KEY.s
          /\ peer.net[3].payload.prompt = buildPrompt(peer.body.feature)
          /\ peer.net[3].payload.base64 = Base64(peer.getResp.data)

\* the second request, with another key, was answered 200 while the first
\* was still waiting for its own inference call
C16_Witness ==
    /\ pc = "awaitPost"
    /\ peer.pc = "done"
    /\ peer.reply.status = 200
    /\ peer.env.OPENROUTER_API_KEY # env.OPENROUTER_API_KEY
    /\ Len(peer.net) = 3

\* C21: a failed image download is classified in this order: a timeout (code
\* ECONNABORTED) gives the "Image fetch timeout" error even with a response
\* attached; otherwise a failure with a response gives "Failed to fetch image:
\* HTTP <status>"; otherwise "Failed to fetch image: <underlying message>"; an
\* error that did not come from the transport is passed on unchanged.
C21_FetchFailureClassified ==
    /\ getResp.settled = "rejected" =>
          /\ pc = "done"
          /\ outcome.kind = "error" /\ outcome.name = "Error"
          /\ ~outcome.axios.isAxiosError
          /\ outcome.message =
                IF getResp.error.axios.code = "ECONNABORTED"
                THEN <<"Image ", "fetch", " ", "timeout",
                       ": The image URL took too long to respond">>
                ELSE IF getResp.error.axios.hasResponse
                THEN <<"Failed to ", "fetch", " image: ", "HTTP", " ",
                       ToString(getResp.status)>>
                ELSE <<"Failed to ", "fetch", " image: ">> \o getResp.error.message
    /\ (pc = "done" /\ getResp.settled = "resolved" /\ postResp.settled = "pending") =>
          /\ outcome.kind = "error" /\ outcome.name = "Error"
          /\ \/ outcome.message = SizeErrorText(getResp.data.byteLength)
             \/ StartsWith(outcome.message, <<"Unsupported image ", "format", ": ">>)
    /\ (pc = "done" /\ DeclaredTooLarge) =>
          outcome = Thrown(SizeErrorText(ParseInt(headResp.contentLength.s).n))

\* a download that timed out with a 200 response attached was reported as a timeout
C21_Witness ==
    /\ pc = "done"
    /\ getResp.error.axios.code = "ECONNABORTED"
    /\ getResp.error.axios.hasResponse
    /\ Includes(outcome.message, <<"timeout">>)
    /\ ~Includes(outcome.message, <<"HTTP">>)

\* the declared type of the download, lowercased, without parameters, trimmed
DeclaredType ==
    LET h == IF getResp.contentType.defined THEN getResp.contentType.s ELSE <<>>
        l == [i \in 1..Len(h) |-> LowerTok(h[i])]
        first == IF \E i \in 1..Len(l) : l[i] = ";"
                 THEN SubSeq(l, 1, (CHOOSE i \in 1..Len(l) :
                                       l[i] = ";" /\ \A j \in 1..(i - 1) : l[j] # ";") - 1)
                 ELSE l
    IN  Trim(first)

\* C22: a successful fetch returns a content type that is exactly image/png,
\* image/webp or image/jpeg: image/png when the declared type names png,
\* otherwise image/webp when it names webp, otherwise (type missing, empty, or
\* jpeg/jpg in any letter case or with parameters) image/jpeg; the data URI
\* sent upstream carries that type and the base64 of the downloaded bytes.
C22_ContentTypeNormalized ==
    Len(net) = 3 =>
       LET sent == net[3].payload
           names(w) == \E i \in 1..Len(DeclaredType) : DeclaredType[i] = w
       IN  /\ sent.mime \in {<<"image/", "png">>, <<"image/", "webp">>, <<"image/", "jpeg">>}
           /\ names("png") => sent.mime = <<"image/", "png">>
           /\ (names("webp") /\ ~names("png")) => sent.mime = <<"image/", "webp">>
           /\ ( /\ DeclaredType = <<>> \/ names("jpeg") \/ names("jpg")
                /\ ~names("png") /\ ~names("webp") )
              => sent.mime = <<"image/", "jpeg">>
           /\ sent.base64 = [chars |-> 4 * ((getResp.data.byteLength + 2) \div 3),
                             of |-> getResp.data.fill]
           /\ sent.base64.chars > 0

\* an " Image/JPG ; q=1" download went upstream as image/jpeg
C22_Witness ==
    /\ Len(net) = 3
    /\ getResp.contentType = Str(<<" ", "Image/", "JPG", " ", ";", " q=1">>)
    /\ net[3].payload.mime = <<"image/", "jpeg">>

\* the reply under parse is valid JSON once its fences are stripped and it is trimmed
ParsesAsJson == JSONParse(CleanContent(postResp.content.s)).ok

\* the parse failure that names a field
MissingField(field, type) ==
    Thrown(<<"AI response missing valid \"" \o field \o "\" " \o type \o " field">>)

\* C23: for a reply that parses as JSON, exists must be a boolean, confidence a
\* number and reasoning a string; an absent or wrongly typed field fails with
\* the parse failure naming it, the fields being checked in the order exists,
\* confidence, reasoning, and a result is returned only when all three pass.
C23_FieldsCheckedInOrder ==
    (pc = "parse_out" /\ ParsesAsJson) =>
       LET e == Reported("exists").t = "boolean"
           c == Reported("confidence").t = "number"
           r == Reported("reasoning").t = "string"
       IN  /\ ~e => outcome = MissingField("exists", "boolean")
           /\ (e /\ ~c) => outcome = MissingField("confidence", "number")
           /\ (e /\ c /\ ~r) => outcome = MissingField("reasoning", "string")
           /\ (outcome.kind = "ok") <=> (e /\ c /\ r)

\* C24: parseResponse either returns a result or fails with one of its own
\* parse failures (not JSON, or missing exists / confidence / reasoning); it
\* never fails with another exception, also for replies that are valid JSON
\* but not an object (null, a number, a string, an array).
C24_OnlyParseFailures ==
    pc = "parse_out" =>
       \/ outcome.kind = "ok"
       \/ /\ outcome.kind = "error"
          /\ outcome.name = "Error"
          /\ \/ StartsWith(outcome.message, <<"Failed to parse AI response as JSON: ">>)
             \/ outcome \in {MissingField("exists", "boolean"),
                              MissingField("confidence", "number"),
                              MissingField("reasoning", "string")}

\* two outcomes of parseResponse are the same result or the same kind of failure
SameOutcome(a, b) ==
    /\ a.kind = b.kind
    /\ a.result = b.result
    /\ a.name = b.name
    /\ IF StartsWith(a.message, <<"Failed to parse AI response as JSON: ">>)
       THEN StartsWith(b.message, <<"Failed to parse AI response as JSON: ">>)
       ELSE a.message = b.message

\* C25: fence round trip: a reply wrapped in json fences or in plain fences
\* is parsed to the same outcome, the same result record or the same kind of
\* failure, as the reply without the fences.
C25_FenceRoundTrip ==
    pc = "parse_out" =>
       \A k \in {"json", "plain"} :
          SameOutcome(parseResponse(Wrap(k, postResp.content.s)), outcome)

\* a valid reply was parsed to a result, and so are its two fenced forms
C25_Witness ==
    /\ pc = "parse_out"
    /\ postResp.content.s = GoodDoc(5)
    /\ outcome.kind = "ok"
    /\ parseResponse(Wrap("json", GoodDoc(5))) = outcome
    /\ parseResponse(Wrap("plain", GoodDoc(5))) = outcome
    /\ Wrap("plain", GoodDoc(5)) # GoodDoc(5)

\* C26: when the reply, stripped of fences and trimmed, is not valid JSON the
\* failure's message embeds the raw reply text unchanged, fences included.
C26_RawTextEmbedded ==
    (pc = "parse_out" /\ ~ParsesAsJson) =>
       /\ outcome.kind = "error" /\ outcome.name = "Error"
       /\ outcome.result = NoResult
       /\ outcome.message =
             <<"Failed to parse AI response as JSON: ">> \o postResp.content.s
       /\ Includes(outcome.message, postResp.content.s)

\* the fenced reply "not json" failed with a message holding the fences as well
C26_Witness ==
    /\ pc = "parse_out"
    /\ postResp.content.s = Wrap("json", <<"not json">>)
    /\ CleanContent(postResp.content.s) = <<"not json">>
    /\ Includes(outcome.message, <<FenceJson, "\n", "not json", "\n", Fence>>)

\* C27: when the inference endpoint answers with a non-2xx response the call
\* fails with "OpenRouter API error: " followed by the body's error message if
\* there is a non-empty one and by the response's status text otherwise, and
\* no reply is parsed.
C27_UpstreamErrorMessage ==
    (postResp.settled = "rejected" /\ postResp.error.axios.hasResponse) =>
       /\ pc = "done"
       /\ outcome =
             Thrown(<<"OpenRouter API error: ">>
                    \o (IF /\ postResp.error.axios.dataErrorMessage.defined
                           /\ postResp.error.axios.dataErrorMessage.s # <<>>
                        THEN postResp.error.axios.dataErrorMessage.s
                        ELSE postResp.error.axios.statusText))
       /\ \A i \in 1..Len(trace) : trace[i] # "parse"
       /\ reply.result = NoResult

\* a 401 whose body says "Invalid API key" failed with that message
C27_Witness ==
    /\ pc = "done"
    /\ postResp.status = 401
    /\ outcome.message = <<"OpenRouter API error: ", "Invalid API key">>

\* the words of a message that evaluateImage put in front of the transport's own
OwnWords(message, underlying) ==
    IF EndsWith(message, underlying)
    THEN SubSeq(message, 1, Len(message) - Len(underlying))
    ELSE message

\* C28: when the inference request fails without any response, the error of
\* evaluateImage is a timeout error if the failure was a timeout and the
\* upstream request failure otherwise: the two are errors of different kinds.
C28_TimeoutDistinguished ==
    (pc = "done" /\ postResp.settled = "rejected" /\ ~postResp.error.axios.hasResponse) =>
       /\ outcome.kind = "error"
       /\ (postResp.error.axios.code = "ECONNABORTED")
             <=> (OwnWords(outcome.message, postResp.error.message)
                     # <<"OpenRouter API request failed: ">>)

\* C29: the route checks the body, then the URL, then the API key: a request
\* with an invalid body or a refused URL is answered 400 also when the key is
\* missing, and the 500 configuration error is only sent for a request whose
\* body and URL both passed.
C29_CheckOrder ==
    pc # "received" =>
       /\ SchemaIssues(body) # <<>> =>
             /\ pc = "done" /\ reply.status = 400
             /\ urlValidation = NotValidated
       /\ ( /\ SchemaIssues(body) = <<>>
            /\ ~validateImageUrl(body.image_url, env.ALLOWED_IMAGE_DOMAINS).isValid )
          => /\ pc = "done" /\ reply.status = 400
             /\ reply.error
                  = <<validateImageUrl(body.image_url, env.ALLOWED_IMAGE_DOMAINS).error>>
       /\ reply.error = <<"Server configuration error: OpenRouter API key not configured">>
          => /\ reply.status = 500
             /\ SchemaIssues(body) = <<>>
             /\ urlValidation.isValid
             /\ KeyIsBlank(env.OPENROUTER_API_KEY)
       /\ serviceConstructed =>
             /\ SchemaIssues(body) = <<>>
             /\ urlValidation.isValid
             /\ ~KeyIsBlank(env.OPENROUTER_API_KEY)

\* a request for a private address, sent while no key was configured, got 400
C29_Witness ==
    /\ pc = "done"
    /\ ~env.OPENROUTER_API_KEY.defined
    /\ SchemaIssues(body) = <<>>
    /\ ~urlValidation.isValid
    /\ urlValidation # NotValidated
    /\ reply.status = 400

\* C30: an allowlist that is set but has no non-empty entry after splitting on
\* commas and trimming is treated like an absent one: the verdict is the one
\* given without any list, and every http/https URL that passes the
\* private-address and metadata checks is accepted.
C30_EmptyAllowlistIsAbsent ==
    ( /\ pc = "url_out"
      /\ env.ALLOWED_IMAGE_DOMAINS.defined
      /\ AllowlistEntries(env.ALLOWED_IMAGE_DOMAINS) = {} )
    => /\ urlValidation = validateImageUrl(body.image_url, Undefined)
       /\ ( /\ ParseURL(body.image_url).ok
            /\ ParseURL(body.image_url).protocol \in {"http:", "https:"}
            /\ ~IsPrivateHost(HostnameOf(body.image_url))
            /\ ~IsMetadataHost(HostnameOf(body.image_url)) )
          => urlValidation = Valid

\* a public URL was accepted under the allowlist " , "
C30_Witness ==
    /\ pc = "url_out"
    /\ env.ALLOWED_IMAGE_DOMAINS = Str(<<" ", ",", " ">>)
    /\ body.image_url = UrlOf("https:", <<"cdn", ".", "example", ".", "com">>)
    /\ urlValidation = Valid

====
